---- MODULE Spec2Model ----
(***************************************************************************)
(* Model of the VISE API (src/app.py): client registration against the    *)
(* card-tier eligibility rules, the purchase gate, and the selection of   *)
(* the best discount.                                                      *)
(*                                                                         *)
(* Strings that the code only compares or stores are TLA+ strings.        *)
(* Country names are sequences of one-character strings, because          *)
(* is_abroad() strips and lower-cases them.                                *)
(* Money is an integer number of 1e-5 USD (MoneyScale units per USD), so  *)
(* that amount * percentage / 100 is exact for amounts given in mills.    *)
(***************************************************************************)
EXTENDS Integers, Sequences, FiniteSets, TLC

VARIABLES CLIENTS, NEXT_ID, last, pc, local

vars == <<CLIENTS, NEXT_ID, last, pc, local>>

(***************************************************************************)
(* Bounds of the model.                                                    *)
(***************************************************************************)
MaxClients == 2
NumThreads == 2

(***************************************************************************)
(* Python's None.                                                          *)
(***************************************************************************)
None == "None"

(***************************************************************************)
(* class CardType(str, Enum)                                               *)
(***************************************************************************)
CardType == {"Classic", "Gold", "Platinum", "Black", "White"}

(***************************************************************************)
(* Country strings, as sequences of characters.                            *)
(***************************************************************************)
France == <<"F", "r", "a", "n", "c", "e">>
FranceLowerPadded == <<" ", "f", "r", "a", "n", "c", "e", " ">>
Spain == <<"S", "p", "a", "i", "n">>
China == <<"C", "h", "i", "n", "a">>
ChinaLower == <<"c", "h", "i", "n", "a">>
Vietnam == <<"V", "i", "e", "t", "n", "a", "m">>
India == <<"I", "n", "d", "i", "a">>
IranAccent == <<"I", "r", "á", "n">>
Iran == <<"I", "r", "a", "n">>
EmptyStr == <<>>

(* Variant: only the accented spelling of Iran is listed. *)
BLOCKLIST_accented_iran_only == {China, Vietnam, India, IranAccent}

BLACK_WHITE_COUNTRY_BLOCKLIST == {China, Vietnam, India, IranAccent, Iran}

WEEKDAY_NAME ==
  [i \in 0..6 |->
     CASE i = 0 -> "Lunes"
       [] i = 1 -> "Martes"
       [] i = 2 -> "Miércoles"
       [] i = 3 -> "Jueves"
       [] i = 4 -> "Viernes"
       [] i = 5 -> "Sábado"
       [] i = 6 -> "Domingo"]

(***************************************************************************)
(* Money: units per USD, and the percentage arithmetic of the discounts.   *)
(***************************************************************************)
MoneyScale == 100000
CentUnits == 1000

USD(n) == n * MoneyScale

(***************************************************************************)
(* Variant: the White branch lacks the residency check.                    *)
(***************************************************************************)
validate_white_without_residency(payload) ==
  LET ct == payload.cardType
      income == payload.monthlyIncome
      club == payload.viseClub
      country == payload.country
  IN  IF ct = "Classic" THEN None
      ELSE IF ct = "Gold" THEN
        IF income < 500
          THEN "El cliente no cumple con el ingreso mínimo de 500 USD mensuales para Gold"
          ELSE None
      ELSE IF ct = "Platinum" THEN
        IF income < 1000
          THEN "El cliente no cumple con el ingreso mínimo de 1000 USD mensuales para Platinum"
        ELSE IF ~club
          THEN "El cliente no cumple con la suscripción VISE CLUB requerida para Platinum"
        ELSE None
      ELSE IF ct = "Black" THEN
        IF income < 2000
          THEN "El cliente no cumple con el ingreso mínimo de 2000 USD mensuales para Black"
        ELSE IF ~club
          THEN "El cliente no cumple con la suscripción VISE CLUB requerida para Black"
        ELSE IF country \in BLACK_WHITE_COUNTRY_BLOCKLIST
          THEN "El cliente con tarjeta Black no puede residir en China, Vietnam, India o Irán"
        ELSE None
      ELSE IF ct = "White" THEN
        IF income < 2000
          THEN "El cliente no cumple con el ingreso mínimo de 2000 USD mensuales para White"
        ELSE IF ~club
          THEN "El cliente no cumple con la suscripción VISE CLUB requerida para White"
        ELSE None
      ELSE None

(***************************************************************************)
(* Variant: the Black branch checks the club before the income.            *)
(***************************************************************************)
validate_black_club_first(payload) ==
  LET ct == payload.cardType
      income == payload.monthlyIncome
      club == payload.viseClub
      country == payload.country
  IN  IF ct = "Classic" THEN None
      ELSE IF ct = "Gold" THEN
        IF income < 500
          THEN "El cliente no cumple con el ingreso mínimo de 500 USD mensuales para Gold"
          ELSE None
      ELSE IF ct = "Platinum" THEN
        IF income < 1000
          THEN "El cliente no cumple con el ingreso mínimo de 1000 USD mensuales para Platinum"
        ELSE IF ~club
          THEN "El cliente no cumple con la suscripción VISE CLUB requerida para Platinum"
        ELSE None
      ELSE IF ct = "Black" THEN
        IF ~club
          THEN "El cliente no cumple con la suscripción VISE CLUB requerida para Black"
        ELSE IF income < 2000
          THEN "El cliente no cumple con el ingreso mínimo de 2000 USD mensuales para Black"
        ELSE IF country \in BLACK_WHITE_COUNTRY_BLOCKLIST
          THEN "El cliente con tarjeta Black no puede residir en China, Vietnam, India o Irán"
        ELSE None
      ELSE IF ct = "White" THEN
        IF income < 2000
          THEN "El cliente no cumple con el ingreso mínimo de 2000 USD mensuales para White"
        ELSE IF ~club
          THEN "El cliente no cumple con la suscripción VISE CLUB requerida para White"
        ELSE IF country \in BLACK_WHITE_COUNTRY_BLOCKLIST
          THEN "El cliente con tarjeta White no puede residir en China, Vietnam, India o Irán"
        ELSE None
      ELSE None

(***************************************************************************)
(* validate_client_restrictions: the reason of rejection, or None.         *)
(* monthlyIncome is in whole USD.                                          *)
(***************************************************************************)
validate_client_restrictions(payload) ==
  LET ct == payload.cardType
      income == payload.monthlyIncome
      club == payload.viseClub
      country == payload.country
  IN  IF ct = "Classic" THEN None
      ELSE IF ct = "Gold" THEN
        IF income < 500
          THEN "El cliente no cumple con el ingreso mínimo de 500 USD mensuales para Gold"
          ELSE None
      ELSE IF ct = "Platinum" THEN
        IF income < 1000
          THEN "El cliente no cumple con el ingreso mínimo de 1000 USD mensuales para Platinum"
        ELSE IF ~club
          THEN "El cliente no cumple con la suscripción VISE CLUB requerida para Platinum"
        ELSE None
      ELSE IF ct = "Black" THEN
        IF income < 2000
          THEN "El cliente no cumple con el ingreso mínimo de 2000 USD mensuales para Black"
        ELSE IF ~club
          THEN "El cliente no cumple con la suscripción VISE CLUB requerida para Black"
        ELSE IF country \in BLACK_WHITE_COUNTRY_BLOCKLIST
          THEN "El cliente con tarjeta Black no puede residir en China, Vietnam, India o Irán"
        ELSE None
      ELSE IF ct = "White" THEN
        IF income < 2000
          THEN "El cliente no cumple con el ingreso mínimo de 2000 USD mensuales para White"
        ELSE IF ~club
          THEN "El cliente no cumple con la suscripción VISE CLUB requerida para White"
        ELSE IF country \in BLACK_WHITE_COUNTRY_BLOCKLIST
          THEN "El cliente con tarjeta White no puede residir en China, Vietnam, India o Irán"
        ELSE None
      ELSE None

(***************************************************************************)
(* The string spelled by a sequence of characters (for formatted text).    *)
(***************************************************************************)
RECURSIVE str(_)
str(s) == IF s = <<>> THEN "" ELSE Head(s) \o str(Tail(s))

(***************************************************************************)
(* f"{card}" for a member of the str-valued enum: its value.  (Newer       *)
(* interpreters print the member's qualified name instead; the text is     *)
(* only reported, never compared.)                                         *)
(***************************************************************************)
format_card(card) == card

(***************************************************************************)
(* purchase_restrictions: the reason of rejection, or None.                *)
(***************************************************************************)
purchase_restrictions(client, purchase) ==
  LET card == client.cardType
  IN  IF card \in {"Black", "White"}
           /\ purchase.purchaseCountry \in BLACK_WHITE_COUNTRY_BLOCKLIST
        THEN "El cliente con tarjeta " \o format_card(card)
               \o " no puede realizar compras desde " \o str(purchase.purchaseCountry)
        ELSE None

(***************************************************************************)
(* str.strip() and str.lower() on a sequence of characters.                *)
(***************************************************************************)
lowerChar(c) ==
  CASE c = "A" -> "a" [] c = "B" -> "b" [] c = "C" -> "c" [] c = "D" -> "d"
    [] c = "E" -> "e" [] c = "F" -> "f" [] c = "G" -> "g" [] c = "H" -> "h"
    [] c = "I" -> "i" [] c = "J" -> "j" [] c = "K" -> "k" [] c = "L" -> "l"
    [] c = "M" -> "m" [] c = "N" -> "n" [] c = "O" -> "o" [] c = "P" -> "p"
    [] c = "Q" -> "q" [] c = "R" -> "r" [] c = "S" -> "s" [] c = "T" -> "t"
    [] c = "U" -> "u" [] c = "V" -> "v" [] c = "W" -> "w" [] c = "X" -> "x"
    [] c = "Y" -> "y" [] c = "Z" -> "z" [] c = "Á" -> "á"
    [] OTHER -> c

lower(s) == [i \in 1..Len(s) |-> lowerChar(s[i])]

RECURSIVE lstrip(_)
lstrip(s) == IF s # <<>> /\ Head(s) = " " THEN lstrip(Tail(s)) ELSE s

RECURSIVE rstrip(_)
rstrip(s) ==
  IF s # <<>> /\ s[Len(s)] = " " THEN rstrip(SubSeq(s, 1, Len(s) - 1)) ELSE s

strip(s) == rstrip(lstrip(s))

is_abroad(client_country, purchase_country) ==
  lower(strip(purchase_country)) # lower(strip(client_country))

(***************************************************************************)
(* purchaseDate strings and dateutil's parser.isoparse: the civil date of  *)
(* the parsed timestamp (no conversion to another zone); raised is TRUE    *)
(* when the string does not parse (ValueError).                            *)
(***************************************************************************)
ValueError == "ValueError"

civil(y, m, d) == [raised |-> FALSE, year |-> y, month |-> m, day |-> d]

isoparse(s) ==
  CASE s = "2025-09-15T10:00:00Z" -> civil(2025, 9, 15)
    [] s = "2025-09-16T10:00:00Z" -> civil(2025, 9, 16)
    [] s = "2025-09-17T10:00:00Z" -> civil(2025, 9, 17)
    [] s = "2025-09-18T10:00:00Z" -> civil(2025, 9, 18)
    [] s = "2025-09-19T10:00:00Z" -> civil(2025, 9, 19)
    [] s = "2025-09-20T14:30:00Z" -> civil(2025, 9, 20)
    [] s = "2025-09-21T23:30:00-05:00" -> civil(2025, 9, 21)
    [] OTHER -> [raised |-> TRUE, error |-> ValueError]

(***************************************************************************)
(* datetime.weekday(): Monday = 0 .. Sunday = 6, from the proleptic        *)
(* Gregorian ordinal of the civil date.                                    *)
(***************************************************************************)
is_leap(y) == y % 4 = 0 /\ (y % 100 # 0 \/ y % 400 = 0)

days_before_year(y) ==
  (y - 1) * 365 + ((y - 1) \div 4) - ((y - 1) \div 100) + ((y - 1) \div 400)

days_before_month(y, m) ==
  LET cum == <<0, 31, 59, 90, 120, 151, 181, 212, 243, 273, 304, 334>>
  IN  cum[m] + (IF m > 2 /\ is_leap(y) THEN 1 ELSE 0)

toordinal(dt) ==
  days_before_year(dt.year) + days_before_month(dt.year, dt.month) + dt.day

weekday(dt) == (toordinal(dt) + 6) % 7

(***************************************************************************)
(* max(candidates, key=lambda x: x[0]): the first candidate whose discount *)
(* is maximal (a later one replaces the best only when strictly greater).  *)
(***************************************************************************)
RECURSIVE max_from(_, _, _)
max_from(candidates, i, best) ==
  IF i > Len(candidates) THEN best
  ELSE max_from(candidates, i + 1,
                IF candidates[i][1] > best[1] THEN candidates[i] ELSE best)

(* Variant: the last candidate appended is returned. *)
max_taking_last(candidates) == candidates[Len(candidates)]

max_by_discount(candidates) == max_from(candidates, 2, candidates[1])

(***************************************************************************)
(* amount * 0.NN, exact in money units (amounts are whole mills).          *)
(***************************************************************************)
pct(amount, p) == (amount * p) \div 100

(***************************************************************************)
(* A rule's contribution to the candidate list: appended when it applies.  *)
(***************************************************************************)
append_if(cond, candidates, c) == IF cond THEN Append(candidates, c) ELSE candidates

(***************************************************************************)
(* compute_discount: value is <<discount, label>>, <<0, None>> when no     *)
(* rule applies; raised is TRUE when purchaseDate does not parse (the      *)
(* ValueError of isoparse propagates).                                     *)
(***************************************************************************)
compute_discount(client, purchase) ==
  LET card == client.cardType
      amount == purchase.amount
      dt == isoparse(purchase.purchaseDate)
  IN  IF dt.raised THEN [raised |-> TRUE, error |-> ValueError]
      ELSE
        LET wd == weekday(dt)
            weekday_name == WEEKDAY_NAME[wd]
            abroad == is_abroad(client.country, purchase.purchaseCountry)
            candidates ==
              IF card = "Classic" THEN <<>>
              ELSE IF card = "Gold" THEN
                append_if(wd \in {0, 1, 2} /\ amount > USD(100), <<>>,
                          <<pct(amount, 15), weekday_name \o " - Descuento 15%">>)
              ELSE IF card = "Platinum" THEN
                LET c1 == append_if(wd \in {0, 1, 2} /\ amount > USD(100), <<>>,
                            <<pct(amount, 20), weekday_name \o " - Descuento 20%">>)
                    c2 == append_if(wd = 5 /\ amount > USD(200), c1,
                            <<pct(amount, 30), "Sábado - Descuento 30%">>)
                IN  append_if(abroad, c2, <<pct(amount, 5), "Exterior - Descuento 5%">>)
              ELSE IF card = "Black" THEN
                LET c1 == append_if(wd \in {0, 1, 2} /\ amount > USD(100), <<>>,
                            <<pct(amount, 25), weekday_name \o " - Descuento 25%">>)
                    c2 == append_if(wd = 5 /\ amount > USD(200), c1,
                            <<pct(amount, 35), "Sábado - Descuento 35%">>)
                IN  append_if(abroad, c2, <<pct(amount, 5), "Exterior - Descuento 5%">>)
              ELSE IF card = "White" THEN
                LET c1 == append_if(wd \in {0, 1, 2, 3, 4} /\ amount > USD(100), <<>>,
                            <<pct(amount, 25), weekday_name \o " - Descuento 25%">>)
                    c2 == append_if(wd \in {5, 6} /\ amount > USD(200), c1,
                            <<pct(amount, 35), weekday_name \o " - Descuento 35%">>)
                IN  append_if(abroad, c2, <<pct(amount, 5), "Exterior - Descuento 5%">>)
              ELSE <<>>
        IN  IF candidates = <<>> THEN [raised |-> FALSE, value |-> <<0, None>>]
            ELSE [raised |-> FALSE, value |-> max_by_discount(candidates)]

(***************************************************************************)
(* IEEE-754 binary64: where the double that the handler computes lies      *)
(* relative to its decimal value, for the decimal ties (x.xx5) that the    *)
(* amounts of WideAmounts produce.  value is amount * rate or              *)
(* amount - amount * rate; 1 = above the tie, -1 = below, 0 = not listed.  *)
(*   0.1 * 0.05          = 0.005000000000000000971...                      *)
(*   0.1 - 0.1 * 0.05    = 0.095000000000000001110...                      *)
(*   100.1 * 0.05        = 5.004999999999999893...                         *)
(*   100.1 - 100.1*0.05  = 95.09499999999999886...                         *)
(*   100.1 * 0.15        = 15.01499999999999879...                         *)
(*   100.1 - 100.1*0.15  = 85.08499999999999374...                         *)
(*   100.1 * 0.25        = 25.02499999999999857...                         *)
(*   100.1 - 100.1*0.25  = 75.07499999999998863...                         *)
(***************************************************************************)
tie_side(amount, value) ==
  CASE amount = 10000 /\ value \in {500, 9500} -> 1
    [] amount = 10010000
         /\ value \in {500500, 9509500, 1501500, 8508500, 2502500, 7507500} -> -1
    [] OTHER -> 0

(***************************************************************************)
(* round(x, 2) for x >= 0: the results Python's round can give for the     *)
(* double whose decimal value is x.  Away from a decimal tie the result is *)
(* the nearest cent.  At a decimal tie the double lies above, below or on  *)
(* the tie and that decides the result: side says where, and where it is   *)
(* not known either neighbouring cent is possible.                         *)
(***************************************************************************)
round2(x, side) ==
  LET q == x \div CentUnits
      r == x % CentUnits
  IN  IF 2 * r < CentUnits THEN {q * CentUnits}
      ELSE IF 2 * r > CentUnits THEN {(q + 1) * CentUnits}
      ELSE IF side > 0 THEN {(q + 1) * CentUnits}
      ELSE IF side < 0 THEN {q * CentUnits}
      ELSE {q * CentUnits, (q + 1) * CentUnits}

(***************************************************************************)
(* Requests.                                                               *)
(*                                                                         *)
(* Profiles are the registration attributes used with the stateful         *)
(* specification: one that passes every tier's policy and one failing      *)
(* each of the three conditions.  WidePayloads covers every threshold on   *)
(* both sides and every spelling of the block set.                         *)
(***************************************************************************)
Profiles ==
  { [country |-> France, monthlyIncome |-> 2000, viseClub |-> TRUE],
    [country |-> China,  monthlyIncome |-> 2000, viseClub |-> TRUE],
    [country |-> France, monthlyIncome |-> 2000, viseClub |-> FALSE],
    [country |-> France, monthlyIncome |-> 499,  viseClub |-> TRUE] }

ClientIn(name, country, income, club, ct) ==
  [name |-> name, country |-> country, monthlyIncome |-> income,
   viseClub |-> club, cardType |-> ct]

Payloads ==
  { ClientIn("John Doe", p.country, p.monthlyIncome, p.viseClub, ct) :
      p \in Profiles, ct \in CardType }

WideIncomes == {0, 499, 500, 999, 1000, 1999, 2000, 5000}

WideCountries ==
  {France, FranceLowerPadded, Spain, China, ChinaLower, Vietnam, India,
   IranAccent, Iran, EmptyStr}

WidePayloads ==
  { ClientIn("John Doe", c, i, b, ct) :
      c \in WideCountries, i \in WideIncomes, b \in BOOLEAN, ct \in CardType }

PurchaseIn(id, amount, currency, date, country) ==
  [clientId |-> id, amount |-> amount, currency |-> currency,
   purchaseDate |-> date, purchaseCountry |-> country]

Dates == {"2025-09-20T14:30:00Z", "not-a-date"}

WideDates ==
  {"2025-09-15T10:00:00Z", "2025-09-16T10:00:00Z", "2025-09-17T10:00:00Z",
   "2025-09-18T10:00:00Z", "2025-09-19T10:00:00Z", "2025-09-20T14:30:00Z",
   "2025-09-21T23:30:00-05:00", "not-a-date", "2025-13-01T00:00:00Z"}

(* 0.10, 0.104, 50, 100, 100.10, 200, 250 and 300 USD *)
WideAmounts ==
  {10000, 10400, USD(50), USD(100), 10010000, USD(200), USD(250), USD(300)}

Purchases ==
  { PurchaseIn(id, USD(250), "USD", d, c) :
      id \in (-1)..(MaxClients + 1), d \in Dates, c \in {France, China} }

WidePurchases ==
  { PurchaseIn(id, a, "USD", d, c) :
      id \in {-1, 0, 1, 2}, a \in WideAmounts, d \in WideDates, c \in WideCountries }

(***************************************************************************)
(* The state after the module is loaded: an empty store, NEXT_ID = 1, no   *)
(* request handled yet and no request in progress.                         *)
(***************************************************************************)
Threads == 1..NumThreads

NoLocal == [payload |-> None, client_id |-> 0, tmp |-> 0, response |-> None]

Init ==
  /\ CLIENTS = <<>>
  /\ NEXT_ID = 1
  /\ last = [op |-> None]
  /\ pc = [t \in Threads |-> "idle"]
  /\ local = [t \in Threads |-> NoLocal]

(***************************************************************************)
(* The stored record and the responses of the two routes.                  *)
(***************************************************************************)
ClientRecord(client_id, payload) ==
  [clientId |-> client_id, name |-> payload.name, country |-> payload.country,
   monthlyIncome |-> payload.monthlyIncome, viseClub |-> payload.viseClub,
   cardType |-> payload.cardType]

ClientOut(client_id, payload) ==
  [clientId |-> client_id, name |-> payload.name, cardType |-> payload.cardType,
   status |-> "Registered",
   message |-> "Cliente apto para tarjeta " \o format_card(payload.cardType)]

Rejected(error) == [status |-> "Rejected", error |-> error]

(* what the last handled request was and what the server answered *)
response(op, payload, code, body) ==
  [op |-> op, request |-> payload, status_code |-> code, body |-> body]

(* Variant: the store is replaced by one holding only the new record. *)
put_replacing_store(store, client_id, record) ==
  [k \in {client_id} |-> record]

(* CLIENTS[client_id] = record: adds the key or overwrites its record *)
put(store, client_id, record) ==
  [k \in DOMAIN store \cup {client_id} |->
     IF k = client_id THEN record ELSE store[k]]

(***************************************************************************)
(* Variant: the handler does not advance NEXT_ID.                          *)
(***************************************************************************)
register_client_without_increment(payload) ==
  LET error == validate_client_restrictions(payload)
  IN  IF error # None
        THEN /\ last' = response("register_client", payload, 400, Rejected(error))
             /\ UNCHANGED <<CLIENTS, NEXT_ID, pc, local>>
        ELSE /\ NEXT_ID <= MaxClients
             /\ CLIENTS' = put(CLIENTS, NEXT_ID, ClientRecord(NEXT_ID, payload))
             /\ last' = response("register_client", payload, 200,
                                  ClientOut(NEXT_ID, payload))
             /\ UNCHANGED <<NEXT_ID, pc, local>>

(***************************************************************************)
(* POST /client, handled without interruption.                             *)
(***************************************************************************)
register_client(payload) ==
  LET error == validate_client_restrictions(payload)
  IN  IF error # None
        THEN /\ last' = response("register_client", payload, 400, Rejected(error))
             /\ UNCHANGED <<CLIENTS, NEXT_ID, pc, local>>
        ELSE /\ NEXT_ID <= MaxClients
             /\ CLIENTS' = put(CLIENTS, NEXT_ID, ClientRecord(NEXT_ID, payload))
             /\ NEXT_ID' = NEXT_ID + 1
             /\ last' = response("register_client", payload, 200,
                                  ClientOut(NEXT_ID, payload))
             /\ UNCHANGED <<pc, local>>

(***************************************************************************)
(* The body of POST /purchase: the responses the handler can give for a    *)
(* request against a store (more than one only where round() meets a       *)
(* decimal tie).  An exception that is not an HTTPException leaves the     *)
(* handler unhandled and the server answers 500.                           *)
(***************************************************************************)
PurchaseOut(payload, discountApplied, final_amount, label) ==
  [status |-> "Approved",
   purchase |-> [clientId |-> payload.clientId,
                 originalAmount |-> payload.amount,
                 discountApplied |-> discountApplied,
                 finalAmount |-> final_amount,
                 benefit |-> label]]

purchase_responses(store, payload) ==
  IF payload.clientId \notin DOMAIN store
    THEN {response("register_purchase", payload, 400,
                   Rejected("Cliente no encontrado"))}
    ELSE
      LET client == store[payload.clientId]
          pr_error == purchase_restrictions(client, payload)
      IN  IF pr_error # None
            THEN {response("register_purchase", payload, 400, Rejected(pr_error))}
            ELSE
              LET res == compute_discount(client, payload)
              IN  IF res.raised
                    THEN {response("register_purchase", payload, 500,
                                   [unhandled |-> res.error])}
                    ELSE
                      LET discount == res.value[1]
                          label == res.value[2]
                      IN  { response("register_purchase", payload, 200,
                                     PurchaseOut(payload, discountApplied,
                                                 final_amount, label)) :
                              final_amount \in
                                round2(payload.amount - discount,
                                       tie_side(payload.amount,
                                                payload.amount - discount)),
                              discountApplied \in
                                round2(discount,
                                       tie_side(payload.amount, discount)) }

(***************************************************************************)
(* Variant: the handler parses purchaseDate before it looks the client up. *)
(***************************************************************************)
register_purchase_parsing_first(payload) ==
  /\ last' \in
       (IF isoparse(payload.purchaseDate).raised
          THEN {response("register_purchase", payload, 500,
                         [unhandled |-> ValueError])}
          ELSE purchase_responses(CLIENTS, payload))
  /\ UNCHANGED <<CLIENTS, NEXT_ID, pc, local>>

(***************************************************************************)
(* POST /purchase                                                          *)
(***************************************************************************)
register_purchase(payload) ==
  /\ last' \in purchase_responses(CLIENTS, payload)
  /\ UNCHANGED <<CLIENTS, NEXT_ID, pc, local>>

(***************************************************************************)
(* GET /                                                                   *)
(***************************************************************************)
root ==
  /\ last' = [op |-> "root", status_code |-> 200,
              body |-> [ok |-> TRUE, service |-> "VISE API"]]
  /\ UNCHANGED <<CLIENTS, NEXT_ID, pc, local>>

Next ==
  \/ \E payload \in Payloads : register_client(payload)
  \/ \E payload \in Purchases : register_purchase(payload)
  \/ root

Spec == Init /\ [][Next]_vars

(***************************************************************************)
(* validate_client_restrictions on its own: the payload is drawn by the    *)
(* initial state and the function is applied to it.                        *)
(***************************************************************************)
InitValidate ==
  /\ CLIENTS = <<>>
  /\ NEXT_ID = 1
  /\ last \in {[op |-> "pending", request |-> p] : p \in WidePayloads}
  /\ pc = [t \in Threads |-> "idle"]
  /\ local = [t \in Threads |-> NoLocal]

EvalValidate ==
  /\ last.op = "pending"
  /\ last' = [op |-> "validate_client_restrictions", request |-> last.request,
              result |-> validate_client_restrictions(last.request)]
  /\ UNCHANGED <<CLIENTS, NEXT_ID, pc, local>>

NextValidate == EvalValidate

SpecValidate == InitValidate /\ [][NextValidate]_vars

(***************************************************************************)
(* compute_discount on its own, for a stored client of each tier.          *)
(***************************************************************************)
DiscountClients ==
  { ClientRecord(1, ClientIn("John Doe", c, 2000, TRUE, ct)) :
      c \in {France, Spain, EmptyStr}, ct \in CardType }

InitDiscount ==
  /\ CLIENTS = <<>>
  /\ NEXT_ID = 1
  /\ last \in {[op |-> "pending", client |-> c, request |-> p] :
                 c \in DiscountClients,
                 p \in {q \in WidePurchases : q.clientId = 1}}
  /\ pc = [t \in Threads |-> "idle"]
  /\ local = [t \in Threads |-> NoLocal]

EvalDiscount ==
  /\ last.op = "pending"
  /\ last' = [op |-> "compute_discount", client |-> last.client,
              request |-> last.request,
              result |-> compute_discount(last.client, last.request)]
  /\ UNCHANGED <<CLIENTS, NEXT_ID, pc, local>>

NextDiscount == EvalDiscount

SpecDiscount == InitDiscount /\ [][NextDiscount]_vars

(***************************************************************************)
(* POST /purchase against a store holding one registered client, over the  *)
(* wide range of purchase requests: the request is drawn by the initial    *)
(* state and handled once.                                                 *)
(***************************************************************************)
InitPurchase ==
  /\ \E c \in DiscountClients : CLIENTS = put(<<>>, 1, c)
  /\ NEXT_ID = 2
  /\ last \in {[op |-> "pending", request |-> p] : p \in WidePurchases}
  /\ pc = [t \in Threads |-> "idle"]
  /\ local = [t \in Threads |-> NoLocal]

HandlePurchase ==
  /\ last.op = "pending"
  /\ register_purchase(last.request)

NextPurchase == HandlePurchase

SpecPurchase == InitPurchase /\ [][NextPurchase]_vars

(***************************************************************************)
(* POST /client run by the server's worker threads (the route is a plain   *)
(* def, which the framework runs in a thread pool).  Each thread handles   *)
(* one request; the statements of the handler that touch NEXT_ID and       *)
(* CLIENTS are separate steps, and NEXT_ID += 1 is a load and a store.     *)
(***************************************************************************)
t_validate(t, payload) ==
  /\ pc[t] = "idle"
  /\ LET error == validate_client_restrictions(payload)
     IN  IF error # None
           THEN /\ pc' = [pc EXCEPT ![t] = "done"]
                /\ local' = [local EXCEPT ![t].payload = payload,
                                          ![t].response =
                                            [status_code |-> 400,
                                             body |-> Rejected(error)]]
           ELSE /\ pc' = [pc EXCEPT ![t] = "read_id"]
                /\ local' = [local EXCEPT ![t].payload = payload]
  /\ UNCHANGED <<CLIENTS, NEXT_ID, last>>

(* client_id = NEXT_ID *)
t_read_id(t) ==
  /\ pc[t] = "read_id"
  /\ local' = [local EXCEPT ![t].client_id = NEXT_ID]
  /\ pc' = [pc EXCEPT ![t] = "load"]
  /\ UNCHANGED <<CLIENTS, NEXT_ID, last>>

(* NEXT_ID += 1: load NEXT_ID *)
t_load(t) ==
  /\ pc[t] = "load"
  /\ local' = [local EXCEPT ![t].tmp = NEXT_ID]
  /\ pc' = [pc EXCEPT ![t] = "store"]
  /\ UNCHANGED <<CLIENTS, NEXT_ID, last>>

(* NEXT_ID += 1: store the sum *)
t_store(t) ==
  /\ pc[t] = "store"
  /\ NEXT_ID' = local[t].tmp + 1
  /\ pc' = [pc EXCEPT ![t] = "write"]
  /\ UNCHANGED <<CLIENTS, last, local>>

(* CLIENTS[client_id] = {...}; return ClientOut(...) *)
t_write(t) ==
  /\ pc[t] = "write"
  /\ CLIENTS' = put(CLIENTS, local[t].client_id,
                    ClientRecord(local[t].client_id, local[t].payload))
  /\ local' = [local EXCEPT ![t].response =
                 [status_code |-> 200,
                  body |-> ClientOut(local[t].client_id, local[t].payload)]]
  /\ pc' = [pc EXCEPT ![t] = "done"]
  /\ UNCHANGED <<NEXT_ID, last>>

NextConc ==
  \E t \in Threads :
    \/ \E payload \in Payloads : t_validate(t, payload)
    \/ t_read_id(t)
    \/ t_load(t)
    \/ t_store(t)
    \/ t_write(t)

SpecConc == Init /\ [][NextConc]_vars

(***************************************************************************)
(*                              PROPERTIES                                 *)
(***************************************************************************)

IsRegister(r) == r.op = "register_client"
IsPurchase(r) == r.op = "register_purchase"

(* the eligibility policy of a record's own tier *)
MeetsTierPolicy(rec) ==
  CASE rec.cardType = "Classic" -> TRUE
    [] rec.cardType = "Gold" -> rec.monthlyIncome >= 500
    [] rec.cardType = "Platinum" -> rec.monthlyIncome >= 1000 /\ rec.viseClub
    [] rec.cardType \in {"Black", "White"} ->
         /\ rec.monthlyIncome >= 2000
         /\ rec.viseClub
         /\ rec.country \notin {China, Vietnam, India, IranAccent, Iran}

(***************************************************************************)
(* C1: after any sequence of register_client and register_purchase calls   *)
(* every record of CLIENTS satisfies the eligibility policy of its own     *)
(* tier, and a registration that is rejected adds no record to the store.  *)
(***************************************************************************)
C1_StoredRecordsEligible ==
  [][ /\ \A id \in DOMAIN CLIENTS' : MeetsTierPolicy(CLIENTS'[id])
      /\ (IsRegister(last') /\ last'.status_code = 400) => CLIENTS' = CLIENTS
    ]_vars

(* a Black record is stored and a Black registration from China was rejected *)
C1_Witness ==
  /\ \E id \in DOMAIN CLIENTS : CLIENTS[id].cardType = "Black"
  /\ IsRegister(last)
  /\ last.status_code = 400
  /\ last.request.cardType = "Black"
  /\ last.request.country = China
  /\ last.request.monthlyIncome >= 2000
  /\ last.request.viseClub

(***************************************************************************)
(* C2: client ids are assigned sequentially from 1 and never reused: the   *)
(* k-th accepted registration receives clientId k, a rejected registration *)
(* consumes no id, NEXT_ID never decreases, and in every state the keys of *)
(* CLIENTS are exactly 1..NEXT_ID-1 with each record's clientId equal to   *)
(* its key.                                                                *)
(***************************************************************************)
C2_SequentialIds ==
  [][ /\ DOMAIN CLIENTS' = 1..(NEXT_ID' - 1)
      /\ \A k \in DOMAIN CLIENTS' : CLIENTS'[k].clientId = k
      /\ NEXT_ID' >= NEXT_ID
      /\ (IsRegister(last') /\ last'.status_code = 200) =>
           /\ last'.body.clientId = Cardinality(DOMAIN CLIENTS) + 1
           /\ last'.body.clientId = NEXT_ID
           /\ NEXT_ID' = NEXT_ID + 1
           /\ last'.body.clientId \notin DOMAIN CLIENTS
      /\ (IsRegister(last') /\ last'.status_code = 400) => NEXT_ID' = NEXT_ID
    ]_vars

(* the second accepted registration has just received id 2 *)
C2_Witness ==
  /\ IsRegister(last)
  /\ last.status_code = 200
  /\ last.body.clientId = 2
  /\ DOMAIN CLIENTS = {1, 2}
  /\ NEXT_ID = 3

(***************************************************************************)
(* C7: a purchase whose purchaseDate cannot be parsed, for an existing     *)
(* client, ends in a structured Rejected outcome (status 400 with a        *)
(* Rejected body), never in an unhandled exception.                        *)
(***************************************************************************)
C7_MalformedDateRejected ==
  (/\ IsPurchase(last)
   /\ last.request.clientId \in DOMAIN CLIENTS
   /\ isoparse(last.request.purchaseDate).raised)
  => (last.status_code = 400 /\ last.body.status = "Rejected")

(***************************************************************************)
(* C8: a purchase is rejected with the not-found error exactly when its    *)
(* clientId is not a key of CLIENTS, whatever its purchase country and     *)
(* purchaseDate (so not-found precedes the gate and the discount).         *)
(***************************************************************************)
C8_NotFoundFirst ==
  IsPurchase(last) =>
    ( last.request.clientId \notin DOMAIN CLIENTS
      <=> ( /\ last.status_code = 400
            /\ last.body.status = "Rejected"
            /\ last.body.error = "Cliente no encontrado" ) )

(* not found, although the country is in the block set, the date does not   *)
(* parse and a Black client is stored under another id                      *)
C8_Witness ==
  /\ IsPurchase(last)
  /\ last.request.clientId = NEXT_ID
  /\ last.request.purchaseCountry = China
  /\ isoparse(last.request.purchaseDate).raised
  /\ last.body.error = "Cliente no encontrado"
  /\ \E id \in DOMAIN CLIENTS : CLIENTS[id].cardType = "Black"

(***************************************************************************)
(* C10: stored records are write-once.  register_purchase, whatever its    *)
(* outcome, and a rejected register_client leave CLIENTS and NEXT_ID       *)
(* unchanged; an accepted register_client adds exactly one record; every   *)
(* existing record stays present with the same field values.               *)
(***************************************************************************)
C10_WriteOnce ==
  [][ /\ \A id \in DOMAIN CLIENTS :
           id \in DOMAIN CLIENTS' /\ CLIENTS'[id] = CLIENTS[id]
      /\ IsPurchase(last') => (CLIENTS' = CLIENTS /\ NEXT_ID' = NEXT_ID)
      /\ (IsRegister(last') /\ last'.status_code = 400) =>
           (CLIENTS' = CLIENTS /\ NEXT_ID' = NEXT_ID)
      /\ (IsRegister(last') /\ last'.status_code = 200) =>
           Cardinality(DOMAIN CLIENTS' \ DOMAIN CLIENTS) = 1
    ]_vars

(* two records are stored and a purchase by the first has been approved *)
C10_Witness ==
  /\ DOMAIN CLIENTS = {1, 2}
  /\ IsPurchase(last)
  /\ last.status_code = 200
  /\ last.request.clientId = 1

(***************************************************************************)
(* C3: under any interleaving of concurrent register_client calls every    *)
(* accepted registration receives a distinct clientId and no stored record *)
(* is overwritten by another registration: each accepted registration's    *)
(* record is the one stored under the id it was answered with.             *)
(***************************************************************************)
C3_DistinctIdsNoOverwrite ==
  LET accepted ==
        {t \in Threads : pc[t] = "done" /\ local[t].response.status_code = 200}
  IN  /\ \A t1, t2 \in accepted :
           t1 # t2 => local[t1].response.body.clientId
                        # local[t2].response.body.clientId
      /\ \A t \in accepted :
           /\ local[t].response.body.clientId \in DOMAIN CLIENTS
           /\ CLIENTS[local[t].response.body.clientId]
                = ClientRecord(local[t].response.body.clientId, local[t].payload)

(***************************************************************************)
(* C4: validate_client_restrictions returns the reason of the first        *)
(* failing condition in the order income threshold, viseClub membership,   *)
(* country not in the block set (Classic: no condition; Gold: income >=    *)
(* 500; Platinum: income >= 1000, club; Black and White: income >= 2000,   *)
(* club, country), and acceptance only when no condition fails.            *)
(***************************************************************************)
C4Threshold(ct) ==
  CASE ct = "Gold" -> 500 [] ct = "Platinum" -> 1000
    [] ct \in {"Black", "White"} -> 2000 [] OTHER -> 0

C4ThresholdText(ct) ==
  CASE ct = "Gold" -> "500" [] ct = "Platinum" -> "1000"
    [] ct \in {"Black", "White"} -> "2000" [] OTHER -> "0"

C4IncomeReason(ct) ==
  "El cliente no cumple con el ingreso mínimo de " \o C4ThresholdText(ct)
    \o " USD mensuales para " \o ct

C4ClubReason(ct) ==
  "El cliente no cumple con la suscripción VISE CLUB requerida para " \o ct

C4ResidencyReason(ct) ==
  "El cliente con tarjeta " \o ct
    \o " no puede residir en China, Vietnam, India o Irán"

C4FirstFailing(p) ==
  LET ct == p.cardType
  IN  IF ct = "Classic" THEN None
      ELSE IF p.monthlyIncome < C4Threshold(ct) THEN C4IncomeReason(ct)
      ELSE IF ct \in {"Platinum", "Black", "White"} /\ ~p.viseClub
        THEN C4ClubReason(ct)
      ELSE IF ct \in {"Black", "White"}
              /\ p.country \in {China, Vietnam, India, IranAccent, Iran}
        THEN C4ResidencyReason(ct)
      ELSE None

C4_FirstFailingConditionWins ==
  last.op = "validate_client_restrictions" =>
    last.result = C4FirstFailing(last.request)

(* every condition of Black fails and the income reason is the one reported *)
C4_Witness ==
  /\ last.op = "validate_client_restrictions"
  /\ last.request.cardType = "Black"
  /\ last.request.monthlyIncome = 1999
  /\ ~last.request.viseClub
  /\ last.request.country = China
  /\ last.result = C4IncomeReason("Black")

(***************************************************************************)
(* C5: a purchase by a stored client is rejected by the purchase gate      *)
(* exactly when the client's tier is Black or White and purchaseCountry is *)
(* a member of the block set (exact string membership, both spellings of   *)
(* Iran being members); no such purchase is ever Approved.                 *)
(***************************************************************************)
C5_GateExact ==
  (IsPurchase(last) /\ last.request.clientId \in DOMAIN CLIENTS) =>
    LET client == CLIENTS[last.request.clientId]
        blocked ==
          /\ client.cardType \in {"Black", "White"}
          /\ last.request.purchaseCountry
               \in {China, Vietnam, India, IranAccent, Iran}
        gateRejected ==
          /\ last.status_code = 400
          /\ last.body.status = "Rejected"
          /\ last.body.error # "Cliente no encontrado"
    IN  /\ gateRejected <=> blocked
        /\ blocked => ~(last.status_code = 200)

(* a Black client resident in France is refused a purchase from "Iran" *)
C5_Witness ==
  /\ IsPurchase(last)
  /\ last.request.clientId \in DOMAIN CLIENTS
  /\ CLIENTS[last.request.clientId].cardType = "Black"
  /\ CLIENTS[last.request.clientId].country = France
  /\ last.request.purchaseCountry = Iran
  /\ last.status_code = 400

(***************************************************************************)
(* C6: compute_discount returns the candidate with the maximum discount    *)
(* among all rules of the client's tier whose condition holds, the first   *)
(* in table order among maximal ones, and (0, absent) when no rule         *)
(* applies.  Classic never receives a discount and Gold never receives the *)
(* weekend or abroad discount.                                             *)
(***************************************************************************)
C6DayRule(days, over, p) ==
  [kind |-> "day", days |-> days, over |-> over, pct |-> p]

C6AbroadRule == [kind |-> "abroad", days |-> {}, over |-> 0, pct |-> 5]

C6Table(ct) ==
  CASE ct = "Classic" -> <<>>
    [] ct = "Gold" -> <<C6DayRule({0, 1, 2}, 100, 15)>>
    [] ct = "Platinum" ->
         <<C6DayRule({0, 1, 2}, 100, 20), C6DayRule({5}, 200, 30), C6AbroadRule>>
    [] ct = "Black" ->
         <<C6DayRule({0, 1, 2}, 100, 25), C6DayRule({5}, 200, 35), C6AbroadRule>>
    [] ct = "White" ->
         <<C6DayRule({0, 1, 2, 3, 4}, 100, 25), C6DayRule({5, 6}, 200, 35),
           C6AbroadRule>>

C6Applies(rule, wd, amount, abroad) ==
  IF rule.kind = "abroad" THEN abroad
  ELSE wd \in rule.days /\ amount > rule.over * MoneyScale

C6Amount(rule, amount) == (amount * rule.pct) \div 100

C6_BestCandidate ==
  (last.op = "compute_discount" /\ ~last.result.raised) =>
    LET ct == last.client.cardType
        amount == last.request.amount
        wd == weekday(isoparse(last.request.purchaseDate))
        abroad == is_abroad(last.client.country, last.request.purchaseCountry)
        table == C6Table(ct)
        applicable ==
          {i \in 1..Len(table) : C6Applies(table[i], wd, amount, abroad)}
        got == last.result.value
    IN  /\ IF applicable = {}
             THEN got = <<0, None>>
             ELSE /\ got[2] # None
                  /\ \E i \in applicable :
                       /\ got[1] = C6Amount(table[i], amount)
                       /\ \A j \in applicable :
                            C6Amount(table[j], amount) <= got[1]
                       /\ \A j \in applicable :
                            j < i => C6Amount(table[j], amount) < got[1]
        /\ ct = "Classic" => got = <<0, None>>
        /\ ct = "Gold" =>
             /\ got[2] # "Exterior - Descuento 5%"
             /\ got[1] # 0 => (wd \in {0, 1, 2} /\ got[1] = (amount * 15) \div 100)

(* Platinum, Saturday, abroad, 300 USD: the 30% rule beats the 5% rule *)
C6_Witness ==
  /\ last.op = "compute_discount"
  /\ last.client.cardType = "Platinum"
  /\ last.client.country = France
  /\ last.request.purchaseCountry = Spain
  /\ last.request.purchaseDate = "2025-09-20T14:30:00Z"
  /\ last.request.amount = 300 * MoneyScale
  /\ ~last.result.raised
  /\ last.result.value = <<90 * MoneyScale, "Sábado - Descuento 30%">>

(***************************************************************************)
(* C9: for every Approved purchase discountApplied is non-negative and at  *)
(* most originalAmount, finalAmount is non-negative, and finalAmount       *)
(* equals originalAmount minus discountApplied at 2-decimal precision (it  *)
(* is a nearest cent of that difference), so that the reported discount    *)
(* and final amount add up to the original amount.                         *)
(***************************************************************************)
C9_AmountsAddUp ==
  (IsPurchase(last) /\ last.status_code = 200) =>
    LET p == last.body.purchase
    IN  /\ p.discountApplied >= 0
        /\ p.discountApplied <= p.originalAmount
        /\ p.finalAmount >= 0
        /\ p.finalAmount \in round2(p.originalAmount - p.discountApplied, 0)

====
